---- MODULE Spec2Model ----
(***************************************************************************)
(* Model of src/main.py: a FastAPI service with two single-prompt          *)
(* endpoints (/process-openai, /process-claude) and two batch endpoints    *)
(* (/upload-openai, /upload-claude) that read a CSV of prompts, call a     *)
(* provider once per prompt, write the (prompt, response) table to a fixed *)
(* file name and answer with a FileResponse on that file.                  *)
(*                                                                         *)
(* Requests are the units of concurrency.  A handler is modelled as the    *)
(* sequence of its steps; steps of different requests interleave freely    *)
(* (several workers share the working directory; inside one event loop the *)
(* FileResponse is still read after the handler has returned).             *)
(***************************************************************************)
EXTENDS Integers, Sequences, FiniteSets, TLC

\* ---------------------------------------------------------------- bounds
MaxPrompts == 3                       \* longest prompt column, one request alone
MaxConcurrentPrompts == 1             \* longest prompt column, concurrent requests
MaxReplayPrompts == 2                 \* longest prompt column, an upload posted twice

Requests == {"R1", "R2"}              \* request identities
PromptValues == {"A", "B"}            \* cell values of a prompt column
Texts == {"ok"}                       \* texts a provider generates
Messages == {"timeout"}               \* error texts a provider supplies

\* ------------------------------------------------------ program constants
SYSTEM_PROMPT == "Write an essay for high school students, fully humanized."
WORD_LIMIT_TOKENS == 500

OUTPUT_FILE_OPENAI == "processed_openai.csv"
OUTPUT_FILE_CLAUDE == "processed_claude.csv"
OutputFiles == {OUTPUT_FILE_OPENAI, OUTPUT_FILE_CLAUDE}

DETAIL_INVALID_FORMAT == "Invalid file format. Please upload a CSV file."
DETAIL_MISSING_COLUMN == "Missing 'prompt' column in the CSV file."
DETAIL_ERROR_READING == "Error reading the CSV file."
DETAIL_OPENAI == "Error generating response from OpenAI"
DETAIL_CLAUDE == "Error generating response from Claude"
ERROR_PREFIX == "Error generating response: "

BatchEndpoints == {"/upload-openai", "/upload-claude"}
SingleEndpoints == {"/process-openai", "/process-claude"}

\* ---------------------------------------------------------------- helpers
Range(s) == {s[k] : k \in 1..Len(s)}

SeqsUpTo(S, n) == UNION {[1..k -> S] : k \in 0..n}

\* ------------------------------------------------------------ the uploads
ContentTypes == {"text/csv", "application/json"}

NoBody == [parseable |-> FALSE, columns |-> <<>>, rows |-> <<>>]

\* A CSV body that parses: a header and rows of cells, one cell per column.
TableBody(cols, rws) == [parseable |-> TRUE, columns |-> cols, rows |-> rws]

\* The uploads with at most n rows: bytes that are no CSV, tables with a
\* prompt column (alone, or after another column), tables without one.
Bodies(n) ==
    {NoBody}
    \cup {TableBody(<<"prompt">>, [k \in 1..Len(ps) |-> <<ps[k]>>]) :
              ps \in SeqsUpTo(PromptValues, n)}
    \cup {TableBody(<<"text", "prompt">>, [k \in 1..Len(ps) |-> <<"x", ps[k]>>]) :
              ps \in SeqsUpTo(PromptValues, n)}
    \cup {TableBody(<<"text">>, rws) : rws \in {<<>>, <<<<"A">>>>}}

NoUpload == [endpoint |-> "", content_type |-> "", body |-> NoBody, prompt |-> ""]

\* --------------------------------------------------------------- pandas
NoFrame == [columns |-> <<>>, rows |-> <<>>]

\* pd.read_csv: raises on bytes that are no CSV, else the frame.
pd_read_csv(body) ==
    IF body.parseable
    THEN [raised |-> FALSE, df |-> [columns |-> body.columns, rows |-> body.rows]]
    ELSE [raised |-> TRUE, df |-> NoFrame]

ColumnIndex(df, name) == CHOOSE c \in 1..Len(df.columns) : df.columns[c] = name

\* df["prompt"]: the cells of the named column, in row order.
Column(df, name) == [k \in 1..Len(df.rows) |-> df.rows[k][ColumnIndex(df, name)]]

\* pd.DataFrame(responses): the columns are the keys of the dicts, so a list
\* without dicts gives a frame without columns.
pd_DataFrame(records) ==
    [columns |-> IF records = <<>> THEN <<>> ELSE <<"prompt", "response">>,
     rows    |-> [k \in 1..Len(records) |-> <<records[k].prompt, records[k].response>>]]

NoFile == [exists |-> FALSE, header |-> <<>>, rows |-> <<>>]

\* output_df.to_csv(output_file, index=False): the header line, then one
\* line per row.
to_csv(frame) == [exists |-> TRUE, header |-> frame.columns, rows |-> frame.rows]

\* ------------------------------------------------------------ providers
\* What openai.ChatCompletion.create does: it raises with a message, or it
\* returns a response holding a (possibly empty) list of choices.
OpenaiReplies ==
    {[raised |-> TRUE, msg |-> m, choices |-> <<>>] : m \in Messages}
    \cup {[raised |-> FALSE, msg |-> "", choices |-> c] : c \in SeqsUpTo(Texts, 1)}

\* What requests.post followed by response.json() does: post raises, or the
\* body is no JSON, or it is a JSON object with or without the keys "error"
\* and "content".
ClaudeReplies ==
    {[raised |-> TRUE, msg |-> m, is_json |-> FALSE, has_error |-> FALSE,
      error_message |-> "", has_content |-> FALSE, content |-> ""] : m \in Messages}
    \cup {[raised |-> FALSE, msg |-> "", is_json |-> FALSE, has_error |-> FALSE,
           error_message |-> "", has_content |-> FALSE, content |-> ""]}
    \cup {[raised |-> FALSE, msg |-> "", is_json |-> TRUE, has_error |-> TRUE,
           error_message |-> m, has_content |-> FALSE, content |-> ""] : m \in Messages}
    \cup {[raised |-> FALSE, msg |-> "", is_json |-> TRUE, has_error |-> FALSE,
           error_message |-> "", has_content |-> c, content |-> IF c THEN t ELSE ""] :
              c \in BOOLEAN, t \in Texts}

Replies(endpoint) ==
    IF endpoint \in {"/upload-openai", "/process-openai"} THEN OpenaiReplies
    ELSE ClaudeReplies

\* The request sent to a provider for one prompt.
Payload(prompt) ==
    [messages   |-> <<[role |-> "system", content |-> SYSTEM_PROMPT],
                      [role |-> "user", content |-> prompt]>>,
     max_tokens |-> WORD_LIMIT_TOKENS]

\* Outcome of a try block: a value, or an exception with its str(e).
Returned(v) == [raised |-> FALSE, type |-> "", str |-> "", value |-> v]
Raised(t, s) == [raised |-> TRUE, type |-> t, str |-> s, value |-> ""]

\* response["choices"][0]["message"]["content"] of the create() call.
openai_try(reply) ==
    IF reply.raised THEN Raised("OpenAIError", reply.msg)
    ELSE IF reply.choices = <<>> THEN Raised("IndexError", "list index out of range")
    ELSE Returned(reply.choices[1])

\* response.json() of the post() call.
claude_json(reply) ==
    IF reply.raised THEN Raised("RequestException", reply.msg)
    ELSE IF ~reply.is_json
         THEN Raised("JSONDecodeError", "Expecting value: line 1 column 1 (char 0)")
    ELSE Returned("")

\* The try block of the /upload-openai loop and its except clause.
openai_generated_text(reply) ==
    LET t == openai_try(reply)
    IN  IF t.raised THEN ERROR_PREFIX \o t.str ELSE t.value

\* Variant: the provider's error message is recorded without the prefix.
claude_generated_text_bare(reply) ==
    LET j == claude_json(reply)
        t == IF j.raised THEN j
             ELSE IF reply.has_error THEN Returned(reply.error_message)
             ELSE IF ~reply.has_content THEN Raised("KeyError", "'content'")
             ELSE Returned(reply.content)
    IN  IF t.raised THEN ERROR_PREFIX \o t.str ELSE t.value

\* The try block of the /upload-claude loop and its except clause.
claude_generated_text(reply) ==
    LET j == claude_json(reply)
        t == IF j.raised THEN j
             ELSE IF reply.has_error
                  THEN Returned(ERROR_PREFIX \o reply.error_message)
             ELSE IF ~reply.has_content THEN Raised("KeyError", "'content'")
             ELSE Returned(reply.content)
    IN  IF t.raised THEN ERROR_PREFIX \o t.str ELSE t.value

generated_text(endpoint, reply) ==
    IF endpoint = "/upload-openai" THEN openai_generated_text(reply)
    ELSE claude_generated_text(reply)

\* Variant: both handlers write to the same file name.
output_file_shared(endpoint) == OUTPUT_FILE_OPENAI

output_file(endpoint) ==
    IF endpoint = "/upload-openai" THEN OUTPUT_FILE_OPENAI ELSE OUTPUT_FILE_CLAUDE

\* Lines 89-97 of a batch handler: the content-type test, then the try block
\* around read_csv and the column test, whose except clause catches every
\* Exception, the HTTPException raised inside it included.
HttpError(code, d) == [raised |-> TRUE, status_code |-> code, detail |-> d, df |-> NoFrame]

\* Variant: the declared content-type is not looked at.
read_upload_any_type(up) ==
    LET parsed == pd_read_csv(up.body)
        inner  == IF parsed.raised THEN Raised("ParserError", "")
                  ELSE IF "prompt" \notin Range(parsed.df.columns)
                       THEN Raised("HTTPException", DETAIL_MISSING_COLUMN)
                  ELSE Returned("")
    IN  IF inner.raised THEN HttpError(400, DETAIL_ERROR_READING)
        ELSE [raised |-> FALSE, status_code |-> 0, detail |-> "", df |-> parsed.df]

\* Variant: the except clause answers with a server error.
read_upload_500(up) ==
    IF up.content_type # "text/csv" THEN HttpError(400, DETAIL_INVALID_FORMAT)
    ELSE LET parsed == pd_read_csv(up.body)
             inner  == IF parsed.raised THEN Raised("ParserError", "")
                       ELSE IF "prompt" \notin Range(parsed.df.columns)
                            THEN Raised("HTTPException", DETAIL_MISSING_COLUMN)
                       ELSE Returned("")
         IN  IF inner.raised THEN HttpError(500, DETAIL_ERROR_READING)
             ELSE [raised |-> FALSE, status_code |-> 0, detail |-> "", df |-> parsed.df]

read_upload(up) ==
    IF up.content_type # "text/csv" THEN HttpError(400, DETAIL_INVALID_FORMAT)
    ELSE LET parsed == pd_read_csv(up.body)
             inner  == IF parsed.raised THEN Raised("ParserError", "")
                       ELSE IF "prompt" \notin Range(parsed.df.columns)
                            THEN Raised("HTTPException", DETAIL_MISSING_COLUMN)
                       ELSE Returned("")
         IN  IF inner.raised THEN HttpError(400, DETAIL_ERROR_READING)
             ELSE [raised |-> FALSE, status_code |-> 0, detail |-> "", df |-> parsed.df]

\* ------------------------------------------------------------------ state
VARIABLES pc, \* where each request's handler stands
    upload,     \* the request as received
    df,         \* the frame read from the upload
    idx,        \* number of prompts the for loop has consumed
    responses,  \* the list of {"prompt", "response"} dicts
    calls,      \* payloads sent to the provider, in order
    replies,    \* what the provider answered, in order
    status,     \* status code of the response (0: none yet)
    detail,     \* detail of an error response
    body,       \* JSON body of a single-prompt response
    disk,       \* the files of the working directory
    served      \* the file content the client received

vars == <<pc, upload, df, idx, responses, calls, replies, status, detail, body,
          disk, served>>

NoJson == [prompt |-> "", response |-> ""]

Init ==
    /\ pc = [r \in Requests |-> "idle"]
    /\ upload = [r \in Requests |-> NoUpload]
    /\ df = [r \in Requests |-> NoFrame]
    /\ idx = [r \in Requests |-> 0]
    /\ responses = [r \in Requests |-> <<>>]
    /\ calls = [r \in Requests |-> <<>>]
    /\ replies = [r \in Requests |-> <<>>]
    /\ status = [r \in Requests |-> 0]
    /\ detail = [r \in Requests |-> ""]
    /\ body = [r \in Requests |-> NoJson]
    /\ disk = [f \in OutputFiles |-> NoFile]
    /\ served = [r \in Requests |-> NoFile]

prompts(r) == Column(df[r], "prompt")

\* ------------------------------------------------------- batch endpoints
\* A client posts an upload to one of the batch endpoints.
post_upload(r, bodies) ==
    /\ pc[r] = "idle"
    /\ \E e \in BatchEndpoints, ct \in ContentTypes, b \in bodies :
          upload' = [upload EXCEPT ![r] =
                        [endpoint |-> e, content_type |-> ct, body |-> b, prompt |-> ""]]
    /\ pc' = [pc EXCEPT ![r] = "received"]
    /\ UNCHANGED <<df, idx, responses, calls, replies, status, detail, body, disk, served>>

\* Lines 89-99: reject the upload with a 400, or keep the frame and start
\* with an empty list of responses.
check_upload(r) ==
    /\ pc[r] = "received"
    /\ upload[r].endpoint \in BatchEndpoints
    /\ LET v == read_upload(upload[r])
       IN  IF v.raised
           THEN /\ status' = [status EXCEPT ![r] = v.status_code]
                /\ detail' = [detail EXCEPT ![r] = v.detail]
                /\ pc' = [pc EXCEPT ![r] = "done"]
                /\ UNCHANGED <<df, responses>>
           ELSE /\ df' = [df EXCEPT ![r] = v.df]
                /\ responses' = [responses EXCEPT ![r] = <<>>]
                /\ pc' = [pc EXCEPT ![r] = "loop"]
                /\ UNCHANGED <<status, detail>>
    /\ UNCHANGED <<upload, idx, calls, replies, body, disk, served>>

\* The for loop takes the next prompt and sends it to the provider.
call_provider(r) ==
    /\ pc[r] = "loop"
    /\ idx[r] < Len(prompts(r))
    /\ calls' = [calls EXCEPT ![r] = Append(@, Payload(prompts(r)[idx[r] + 1]))]
    /\ pc' = [pc EXCEPT ![r] = "await"]
    /\ UNCHANGED <<upload, df, idx, responses, replies, status, detail, body, disk, served>>

\* Variant: a prompt whose call raised gets no row (continue).
append_response_skip_failed(r) ==
    /\ pc[r] = "await"
    /\ \E reply \in Replies(upload[r].endpoint) :
          /\ replies' = [replies EXCEPT ![r] = Append(@, reply)]
          /\ responses' = [responses EXCEPT ![r] =
                IF reply.raised THEN @
                ELSE Append(@, [prompt   |-> prompts(r)[idx[r] + 1],
                                response |-> generated_text(upload[r].endpoint, reply)])]
    /\ idx' = [idx EXCEPT ![r] = @ + 1]
    /\ pc' = [pc EXCEPT ![r] = "loop"]
    /\ UNCHANGED <<upload, df, calls, status, detail, body, disk, served>>

\* Variant: a call that raised ends the loop after its row (break).
append_response_break(r) ==
    /\ pc[r] = "await"
    /\ \E reply \in Replies(upload[r].endpoint) :
          /\ replies' = [replies EXCEPT ![r] = Append(@, reply)]
          /\ responses' = [responses EXCEPT ![r] =
                Append(@, [prompt   |-> prompts(r)[idx[r] + 1],
                           response |-> generated_text(upload[r].endpoint, reply)])]
          /\ idx' = [idx EXCEPT ![r] = IF reply.raised THEN Len(prompts(r)) ELSE @ + 1]
    /\ pc' = [pc EXCEPT ![r] = "loop"]
    /\ UNCHANGED <<upload, df, calls, status, detail, body, disk, served>>

\* Variant: a call that raised is tried again instead of being recorded.
append_response_retry(r) ==
    /\ pc[r] = "await"
    /\ \E reply \in Replies(upload[r].endpoint) :
          /\ replies' = [replies EXCEPT ![r] = Append(@, reply)]
          /\ responses' = [responses EXCEPT ![r] =
                IF reply.raised THEN @
                ELSE Append(@, [prompt   |-> prompts(r)[idx[r] + 1],
                                response |-> generated_text(upload[r].endpoint, reply)])]
          /\ idx' = [idx EXCEPT ![r] = IF reply.raised THEN @ ELSE @ + 1]
    /\ pc' = [pc EXCEPT ![r] = "loop"]
    /\ UNCHANGED <<upload, df, calls, status, detail, body, disk, served>>

\* The provider answers; the rest of the loop body turns the answer into
\* generated_text and appends the row.
append_response(r) ==
    /\ pc[r] = "await"
    /\ \E reply \in Replies(upload[r].endpoint) :
          /\ replies' = [replies EXCEPT ![r] = Append(@, reply)]
          /\ responses' = [responses EXCEPT ![r] =
                Append(@, [prompt   |-> prompts(r)[idx[r] + 1],
                           response |-> generated_text(upload[r].endpoint, reply)])]
    /\ idx' = [idx EXCEPT ![r] = @ + 1]
    /\ pc' = [pc EXCEPT ![r] = "loop"]
    /\ UNCHANGED <<upload, df, calls, status, detail, body, disk, served>>

\* After the loop: the table goes to the endpoint's file and the handler
\* returns a FileResponse naming that file.
write_output(r) ==
    /\ pc[r] = "loop"
    /\ idx[r] = Len(prompts(r))
    /\ disk' = [disk EXCEPT ![output_file(upload[r].endpoint)] =
                   to_csv(pd_DataFrame(responses[r]))]
    /\ status' = [status EXCEPT ![r] = 200]
    /\ pc' = [pc EXCEPT ![r] = "returned"]
    /\ UNCHANGED <<upload, df, idx, responses, calls, replies, detail, body, served>>

\* The FileResponse is sent: the file is read now, after the handler returned.
send_file(r) ==
    /\ pc[r] = "returned"
    /\ served' = [served EXCEPT ![r] = disk[output_file(upload[r].endpoint)]]
    /\ pc' = [pc EXCEPT ![r] = "done"]
    /\ UNCHANGED <<upload, df, idx, responses, calls, replies, status, detail, body, disk>>

\* ----------------------------------------------- single-prompt endpoints
\* A client posts {"prompt": ...} to one of the single-prompt endpoints.
post_prompt(r) ==
    /\ pc[r] = "idle"
    /\ \E e \in SingleEndpoints, p \in PromptValues :
          upload' = [upload EXCEPT ![r] =
                        [endpoint |-> e, content_type |-> "application/json",
                         body |-> NoBody, prompt |-> p]]
    /\ pc' = [pc EXCEPT ![r] = "received"]
    /\ UNCHANGED <<df, idx, responses, calls, replies, status, detail, body, disk, served>>

\* except Exception of /process-openai: a fixed 500, whatever was raised.
openai_prompt_result(prompt, reply) ==
    LET t == openai_try(reply)
    IN  IF t.raised
        THEN [status_code |-> 500, detail |-> DETAIL_OPENAI, body |-> NoJson]
        ELSE [status_code |-> 200, detail |-> "",
              body |-> [prompt |-> prompt, response |-> t.value]]

\* The try block of /process-claude: an error body raises an HTTPException
\* carrying the provider's message, inside the try.
claude_prompt_try(reply) ==
    LET j == claude_json(reply)
    IN  IF j.raised THEN j
        ELSE IF reply.has_error THEN Raised("HTTPException", reply.error_message)
        ELSE IF ~reply.has_content THEN Raised("KeyError", "'content'")
        ELSE Returned(reply.content)

\* Variant: an HTTPException raised in the try block passes the except clause.
claude_prompt_result_leak(prompt, reply) ==
    LET t == claude_prompt_try(reply)
    IN  IF t.raised
        THEN [status_code |-> 500,
              detail |-> IF t.type = "HTTPException" THEN t.str ELSE DETAIL_CLAUDE,
              body |-> NoJson]
        ELSE [status_code |-> 200, detail |-> "",
              body |-> [prompt |-> prompt, response |-> t.value]]

\* except Exception of /process-claude: a fixed 500, whatever was raised.
claude_prompt_result(prompt, reply) ==
    LET t == claude_prompt_try(reply)
    IN  IF t.raised
        THEN [status_code |-> 500, detail |-> DETAIL_CLAUDE, body |-> NoJson]
        ELSE [status_code |-> 200, detail |-> "",
              body |-> [prompt |-> prompt, response |-> t.value]]

Respond(r, reply, res) ==
    /\ calls' = [calls EXCEPT ![r] = Append(@, Payload(upload[r].prompt))]
    /\ replies' = [replies EXCEPT ![r] = Append(@, reply)]
    /\ status' = [status EXCEPT ![r] = res.status_code]
    /\ detail' = [detail EXCEPT ![r] = res.detail]
    /\ body' = [body EXCEPT ![r] = res.body]
    /\ pc' = [pc EXCEPT ![r] = "done"]
    /\ UNCHANGED <<upload, df, idx, responses, disk, served>>

process_openai_prompt(r) ==
    /\ pc[r] = "received"
    /\ upload[r].endpoint = "/process-openai"
    /\ \E reply \in OpenaiReplies :
          Respond(r, reply, openai_prompt_result(upload[r].prompt, reply))

process_claude_prompt(r) ==
    /\ pc[r] = "received"
    /\ upload[r].endpoint = "/process-claude"
    /\ \E reply \in ClaudeReplies :
          Respond(r, reply, claude_prompt_result(upload[r].prompt, reply))

\* --------------------------------------------------------- specifications
\* One request served while no other request is in flight: a request is
\* accepted only when every other one is idle.
Alone(r) == \A q \in Requests \ {r} : pc[q] = "idle"

Next ==
    \E r \in Requests :
        \/ Alone(r) /\ post_upload(r, Bodies(MaxPrompts))
        \/ check_upload(r)
        \/ call_provider(r)
        \/ append_response(r)
        \/ write_output(r)
        \/ send_file(r)
        \/ Alone(r) /\ post_prompt(r)
        \/ process_openai_prompt(r)
        \/ process_claude_prompt(r)

Spec == Init /\ [][Next]_vars

\* Batch requests in flight together, their steps interleaved.
NextConcurrent ==
    \E r \in Requests :
        \/ post_upload(r, Bodies(MaxConcurrentPrompts))
        \/ check_upload(r)
        \/ call_provider(r)
        \/ append_response(r)
        \/ write_output(r)
        \/ send_file(r)

SpecConcurrent == Init /\ [][NextConcurrent]_vars

\* The same upload posted twice, the second time after the first answer.
post_upload_again(r) ==
    /\ pc[r] = "idle"
    /\ \E q \in Requests \ {r} :
          /\ pc[q] = "done"
          /\ upload[q].endpoint \in BatchEndpoints
          /\ upload' = [upload EXCEPT ![r] = upload[q]]
    /\ pc' = [pc EXCEPT ![r] = "received"]
    /\ UNCHANGED <<df, idx, responses, calls, replies, status, detail, body, disk, served>>

NextReplay ==
    \E r \in Requests :
        \/ Alone(r) /\ post_upload(r, Bodies(MaxReplayPrompts))
        \/ post_upload_again(r)
        \/ check_upload(r)
        \/ call_provider(r)
        \/ append_response(r)
        \/ write_output(r)
        \/ send_file(r)

SpecReplay == Init /\ [][NextReplay]_vars

\* ------------------------------------------------------------ properties
IsBatch(r) == upload[r].endpoint \in BatchEndpoints
IsSingle(r) == upload[r].endpoint \in SingleEndpoints
IsOpenai(r) == upload[r].endpoint \in {"/upload-openai", "/process-openai"}

HasPromptColumn(b) == \E c \in 1..Len(b.columns) : b.columns[c] = "prompt"

\* An upload a batch endpoint accepts.
Accepted(r) ==
    /\ IsBatch(r)
    /\ upload[r].content_type = "text/csv"
    /\ upload[r].body.parseable
    /\ HasPromptColumn(upload[r].body)

\* The prompt column of the upload as posted.
InputPrompts(r) ==
    LET b == upload[r].body
        c == CHOOSE c \in 1..Len(b.columns) : b.columns[c] = "prompt"
    IN  [k \in 1..Len(b.rows) |-> b.rows[k][c]]

\* The handler has left its loop and written its table.
Finished(r) == pc[r] \in {"returned", "done"} /\ status[r] = 200

OutputOf(r) == disk[IF upload[r].endpoint = "/upload-openai"
                    THEN "processed_openai.csv" ELSE "processed_claude.csv"]

\* The provider call failed by raising (OpenAI: create(); Claude: post()).
CallRaised(rep) == rep.raised

\* The provider call returned a usable text.
CallSucceeded(r, rep) ==
    IF IsOpenai(r) THEN ~rep.raised /\ rep.choices # <<>>
    ELSE ~rep.raised /\ rep.is_json /\ ~rep.has_error /\ rep.has_content

SuccessText(r, rep) == IF IsOpenai(r) THEN rep.choices[1] ELSE rep.content

C2_FailureIsolation ==
    \A r1 \in Requests, r2 \in Requests :
        (/\ r1 # r2 /\ Accepted(r1) /\ Finished(r1) /\ Finished(r2)
         /\ upload[r1] = upload[r2]) =>
            LET n == Len(InputPrompts(r1))
            IN  /\ Len(calls[r1]) = n /\ Len(calls[r2]) = n
                /\ Len(responses[r1]) = n /\ Len(responses[r2]) = n
                /\ \A i \in 1..n :
                      (\A j \in 1..n \ {i} : replies[r1][j] = replies[r2][j]) =>
                          \A j \in 1..n \ {i} : responses[r1][j] = responses[r2][j]

C2_Witness ==
    \E r1 \in Requests, r2 \in Requests :
        /\ r1 # r2 /\ Accepted(r1) /\ Finished(r1) /\ Finished(r2)
        /\ upload[r1] = upload[r2]
        /\ Len(InputPrompts(r1)) = 2
        /\ CallRaised(replies[r1][1]) /\ CallSucceeded(r2, replies[r2][1])
        /\ replies[r1][2] = replies[r2][2]
        /\ responses[r1][2] = responses[r2][2]
        /\ responses[r1][1] # responses[r2][1]

\* str(e) of the errors raised while reading a provider's answer.
ParseErrors ==
    {"list index out of range", "'content'", "Expecting value: line 1 column 1 (char 0)"}

\* C3: on a batch endpoint a failure with message m is recorded in the
\* item's own row as "Error generating response: " followed by m, a success
\* as the generated text unchanged, and an accepted request ends with
\* status 200 and the artifact, never with a 500, even when every item fails.
C3_FailureIsText ==
    \A r \in Requests :
        IsBatch(r) =>
            /\ status[r] # 500
            /\ Len(replies[r]) = Len(responses[r])
            /\ \A j \in 1..Len(responses[r]) :
                  LET rep == replies[r][j]
                      txt == responses[r][j].response
                  IN  /\ CallRaised(rep) => txt = "Error generating response: " \o rep.msg
                      /\ (~IsOpenai(r) /\ ~rep.raised /\ rep.is_json /\ rep.has_error) =>
                            txt = "Error generating response: " \o rep.error_message
                      /\ CallSucceeded(r, rep) => txt = SuccessText(r, rep)
                      /\ ~CallSucceeded(r, rep) =>
                            \E m \in Messages \cup ParseErrors :
                                txt = "Error generating response: " \o m
            /\ (Accepted(r) /\ pc[r] = "done") =>
                  /\ status[r] = 200
                  /\ served[r].exists
                  /\ Len(served[r].rows) = Len(responses[r])
                  /\ \A j \in 1..Len(responses[r]) :
                        served[r].rows[j] = <<responses[r][j].prompt, responses[r][j].response>>

C3_Witness ==
    \E r \in Requests :
        /\ Accepted(r) /\ pc[r] = "done" /\ status[r] = 200
        /\ upload[r].endpoint = "/upload-claude"
        /\ served[r].rows = <<<<"A", "Error generating response: timeout">>,
                              <<"B", "Error generating response: timeout">>>>
        /\ replies[r][1].raised
        /\ replies[r][2].has_error

\* C4: on both batch endpoints an upload whose declared content-type is not
\* text/csv is answered with 400 whatever its body; no prompt is sent to a
\* provider and nothing is written.
C4_WrongTypeIs400 ==
    \A r \in Requests :
        (IsBatch(r) /\ upload[r].content_type # "text/csv" /\ pc[r] # "received") =>
            /\ pc[r] = "done"
            /\ status[r] = 400
            /\ calls[r] = <<>>
            /\ ~served[r].exists

C4_Witness ==
    \E r \in Requests :
        /\ IsBatch(r) /\ upload[r].content_type # "text/csv"
        /\ upload[r].body.parseable /\ HasPromptColumn(upload[r].body)
        /\ Len(upload[r].body.rows) > 0
        /\ pc[r] = "done" /\ status[r] = 400

\* C5: on both batch endpoints an upload declared text/csv that parses but
\* has no prompt column is answered with 400 (not 500, not 200).
C5_MissingColumnIs400 ==
    \A r \in Requests :
        (/\ IsBatch(r) /\ upload[r].content_type = "text/csv"
         /\ upload[r].body.parseable /\ ~HasPromptColumn(upload[r].body)
         /\ pc[r] # "received") =>
            /\ pc[r] = "done"
            /\ status[r] = 400
            /\ calls[r] = <<>>
            /\ ~served[r].exists

C5_Witness ==
    \E r \in Requests :
        /\ IsBatch(r) /\ upload[r].content_type = "text/csv"
        /\ upload[r].body.parseable /\ ~HasPromptColumn(upload[r].body)
        /\ Len(upload[r].body.rows) > 0
        /\ pc[r] = "done" /\ status[r] = 400

\* C6: on both single-prompt endpoints every failure of the provider call
\* (raised, malformed body, Claude error body) gives a 500 whose detail is
\* the endpoint's fixed message; the provider's text is not in the response.
C6_GenericServerError ==
    \A r \in Requests :
        (IsSingle(r) /\ pc[r] = "done") =>
            LET rep == replies[r][1]
            IN  IF CallSucceeded(r, rep)
                THEN /\ status[r] = 200
                     /\ body[r] = [prompt |-> upload[r].prompt, response |-> SuccessText(r, rep)]
                ELSE /\ status[r] = 500
                     /\ detail[r] = IF IsOpenai(r)
                                    THEN "Error generating response from OpenAI"
                                    ELSE "Error generating response from Claude"
                     /\ detail[r] \notin Messages
                     /\ body[r].response = ""

C6_Witness ==
    \E r \in Requests :
        /\ upload[r].endpoint = "/process-claude" /\ pc[r] = "done"
        /\ replies[r][1].has_error /\ replies[r][1].error_message = "timeout"
        /\ status[r] = 500
        /\ detail[r] = "Error generating response from Claude"

\* C7: a parseable upload without a prompt column is answered with the
\* missing-column error, not with the unparseable-file error.
C7_SchemaErrorSurfaced ==
    \A r \in Requests :
        (/\ IsBatch(r) /\ upload[r].content_type = "text/csv"
         /\ upload[r].body.parseable /\ ~HasPromptColumn(upload[r].body)
         /\ pc[r] = "done") =>
            detail[r] = "Missing 'prompt' column in the CSV file."

\* C8: for every accepted batch request, one with zero prompts included, the
\* header of the output artifact is exactly prompt, response.
C8_HeaderPromptResponse ==
    \A r \in Requests :
        (Accepted(r) /\ Finished(r)) => OutputOf(r).header = <<"prompt", "response">>

\* C9: within one batch request the provider is called once per prompt, in
\* input order, the next call only after the previous row is recorded, never
\* twice for a prompt, and the file is written only after the last row.
C9_SequentialOncePerPrompt ==
    \A r \in Requests :
        IsBatch(r) =>
            /\ Len(calls[r]) = Len(responses[r]) + (IF pc[r] = "await" THEN 1 ELSE 0)
            /\ Len(calls[r]) <= Len(upload[r].body.rows)
            /\ \A k \in 1..Len(calls[r]) :
                  /\ calls[r][k].messages[2].content = InputPrompts(r)[k]
                  /\ calls[r][k].messages[1].content = SYSTEM_PROMPT
                  /\ calls[r][k].max_tokens = WORD_LIMIT_TOKENS
            /\ OutputOf(r).exists =>
                  /\ Finished(r)
                  /\ Len(responses[r]) = Len(InputPrompts(r))
                  /\ Len(calls[r]) = Len(InputPrompts(r))

C9_Witness ==
    \E r \in Requests :
        /\ Accepted(r) /\ pc[r] = "returned" /\ OutputOf(r).exists
        /\ Len(calls[r]) = 3
        /\ CallRaised(replies[r][1]) /\ CallRaised(replies[r][2])
        /\ InputPrompts(r) = <<"A", "A", "B">>

\* C10: requests on the same batch endpoint share one output file without
\* synchronization: what a client receives is the table of whichever request
\* on that endpoint wrote the file last before the response was read, its
\* own or another's.
C10_ServedIsAWrittenTable ==
    \A r \in Requests :
        (IsBatch(r) /\ pc[r] = "done" /\ status[r] = 200) =>
            \E q \in Requests :
                /\ upload[q].endpoint = upload[r].endpoint
                /\ Finished(q)
                /\ served[r] = to_csv(pd_DataFrame(responses[q]))

\* R1 wrote its table and returned, R2 overwrote the file, R1's client got
\* R2's table.
C10_Witness ==
    \E r1 \in Requests, r2 \in Requests :
        /\ r1 # r2
        /\ upload[r1].endpoint = upload[r2].endpoint
        /\ pc[r1] = "done" /\ status[r1] = 200 /\ Finished(r2)
        /\ InputPrompts(r1) # InputPrompts(r2)
        /\ Len(InputPrompts(r1)) = 1 /\ Len(InputPrompts(r2)) = 1
        /\ served[r1] = to_csv(pd_DataFrame(responses[r2]))
        /\ served[r1] # to_csv(pd_DataFrame(responses[r1]))

====
